---- MODULE Spec2Model ----
(***************************************************************************)
(* News aggregator: the three provider adapters (services/api.ts), the     *)
(* aggregation functions searchAllNews / getTopHeadlines                   *)
(* (services/newsService.ts) and the fetch orchestrator useMultiSourceNews *)
(* / useCombinedNews (hooks/useNewsQuery.ts) on top of the react-query     *)
(* client configured in App.tsx.                                           *)
(*                                                                         *)
(* Time is counted in minutes; of the clock the model keeps the age of each *)
(* query's data, which is all the freshness test reads, and an age stops   *)
(* counting once the data is stale.  The API keys are left out of the      *)
(* logged requests.                                                        *)
(***************************************************************************)
EXTENDS Integers, Sequences, FiniteSets, TLC

VARIABLES
    cur,        \* the (sources, filters) pair NewsFeed passes to useCombinedNews
    mounted,    \* TRUE once the query observer of NewsFeed has subscribed
    cache,      \* react-query cache: query key -> query state
    calls,      \* every invocation of the queryFn so far, in flight or settled
    renders,    \* number of re-renders of NewsFeed so far
    lastObserve,\* what the latest render got from the cache: "fetch" (a fetch
                \* was started), "join" (one was in flight), "cache" (the
                \* data was fresh, nothing started), "same" (the key did not
                \* change), "none" (nothing rendered yet)
    upstream,   \* the answers the provider endpoints can give in this run
    \* SearchContext
    searchQuery, dateRange, selectedCategory, isSearching,
    \* NewsContext
    selectedSources,
    \* Header and FilterDrawer
    isFilterOpen, localDateRange, localCategory, localSources,
    \* Header and PersonalizeDrawer
    isPersonalizeOpen, preferences, applyImmediately,
    \* window.localStorage: item name -> the value its JSON text stands for
    localStorage,
    steps,      \* number of user actions on the components so far
    lastSaved,  \* history: the drawer state the latest Save Preferences of
                \* this run has written, and whether Reset has run since
    errorBanner \* the ErrorBanner of NewsFeed: whether an instance is mounted,
                \* its isVisible state, whether its timer is pending, and
                \* the failedSources it was last rendered with

searchVars == <<searchQuery, dateRange, selectedCategory, isSearching>>
filterVars == <<isFilterOpen, localDateRange, localCategory, localSources>>
personalizeVars == <<isPersonalizeOpen, preferences, applyImmediately>>

\* the state of the components above NewsFeed
uiVars ==
    <<searchVars, selectedSources, filterVars, personalizeVars, localStorage, steps,
      lastSaved>>

\* the state of the fetch orchestrator below NewsFeed
hookVars == <<mounted, cache, calls, renders, lastObserve, upstream>>

vars == <<cur, hookVars, uiVars, errorBanner>>

----------------------------------------------------------------------------
(* Bounds of the model *)

MaxFeedLen == 2     \* longest list one provider response carries
MaxMerged == 3      \* most articles one aggregation call collects
MaxRenders == 2     \* re-renders of NewsFeed in one run
MaxSteps == 7       \* user actions on the components in one run

(* Program constants *)

StaleTime == 5      \* staleTime: 5 * 60 * 1000 ms
Retry == 1          \* retry: 1

----------------------------------------------------------------------------
(* Types: NewsSource, NewsFilters *)

NewsSource == {"newsapi", "guardian", "nytimes"}

FilterFields == {"searchQuery", "category", "fromDate", "toDate", "author"}

Undefined == "undefined"

\* filters.<field>; a field the object does not carry reads as undefined
Field(filters, name) == IF name \in DOMAIN filters THEN filters[name] ELSE Undefined

\* JavaScript truthiness of an optional string
Truthy(v) == v # Undefined /\ v # ""

\* x || y on optional strings
OrElse(x, y) == IF Truthy(x) THEN x ELSE y

EmptyFilters == [n \in {} |-> ""]

AllSources == <<"newsapi", "guardian", "nytimes">>

DEFAULT_IMAGE_URL == "https://via.placeholder.com/400x200?text=No+Image+Available"

----------------------------------------------------------------------------
(* Sequences *)

Range(s) == {s[i] : i \in 1..Len(s)}

RECURSIVE Flat(_)
\* results.flat(): the concatenation of the lists, in index order
Flat(lists) ==
    IF lists = <<>> THEN <<>> ELSE Head(lists) \o Flat(Tail(lists))

RECURSIVE SumLen(_)
SumLen(lists) ==
    IF lists = <<>> THEN 0 ELSE Len(Head(lists)) + SumLen(Tail(lists))

Count(s, x) == Cardinality({i \in 1..Len(s) : s[i] = x})

IsPermutation(s, t) ==
    /\ Len(s) = Len(t)
    /\ \A x \in Range(s) \cup Range(t) : Count(s, x) = Count(t, x)

SeqPermutations(s) ==
    LET n == Len(s)
        bij == {f \in [1..n -> 1..n] : \A i, j \in 1..n : f[i] = f[j] => i = j}
    IN  {[i \in 1..n |-> s[f[i]]] : f \in bij}

----------------------------------------------------------------------------
(* publishedAt and the comparator of the final sort *)

PublishedAts == {"2024-05-01", "2024-05-02", "not-a-date"}

\* new Date(p).getTime() is NaN
IsNaNDate(p) == p \notin {"2024-05-01", "2024-05-02"}

\* new Date(p).getTime(), in days, for a string that parses
GetTime(p) == IF p = "2024-05-01" THEN 1 ELSE 2

\* the comparator (a, b) => getTime(b) - getTime(a) orders a before b
Before(a, b) ==
    /\ ~IsNaNDate(a.publishedAt)
    /\ ~IsNaNDate(b.publishedAt)
    /\ GetTime(b.publishedAt) - GetTime(a.publishedAt) < 0

RECURSIVE InsertSorted(_, _)
\* x put behind every element that does not have to follow it
InsertSorted(sorted, x) ==
    IF sorted = <<>> THEN <<x>>
    ELSE IF Before(x, Head(sorted)) THEN <<x>> \o sorted
    ELSE <<Head(sorted)>> \o InsertSorted(Tail(sorted), x)

RECURSIVE StableSort(_)
StableSort(list) ==
    IF list = <<>> THEN <<>>
    ELSE InsertSorted(StableSort(SubSeq(list, 1, Len(list) - 1)), list[Len(list)])

\* Array.prototype.sort with the comparator above.  With parsable dates the
\* comparator is consistent and the sort is the stable one; a NaN makes the
\* comparator inconsistent and the order is implementation-defined.
SortOutcomes(list) ==
    IF \A i \in 1..Len(list) : ~IsNaNDate(list[i].publishedAt)
    THEN {StableSort(list)}
    ELSE SeqPermutations(list)

----------------------------------------------------------------------------
(* Provider responses and the adapters' normalisation *)

\* the parts of a provider item the adapters read
ItemFields == {"id", "title", "url", "image", "text", "byline", "publishedAt"}

\* one item of a provider response: its date, the parts it comes without, and
\* what stands in their place ("" or nothing at all)
Item(p) == [publishedAt |-> p, gaps |-> {}, blank |-> ""]

Feeds == UNION {[1..n -> {Item(p) : p \in PublishedAts}] : n \in 0..MaxFeedLen}

\* responses of one item that lacks one part, or its title and its text
GapSets == {{f} : f \in ItemFields} \cup {{"title", "text"}}

GapFeeds ==
    {<<[publishedAt |-> "2024-05-01", gaps |-> g, blank |-> b]>> :
        g \in GapSets, b \in {"", Undefined}}

\* the bylines a New York Times item can come with: with and without the
\* leading "By ", nothing after it, empty, and none
Bylines == {"By Jane Doe", "Jane Doe", "By ", "", Undefined}

\* New York Times items: those that lack their title, their abstract or both,
\* and whole items under each byline
NYTItems ==
    {[publishedAt |-> "2024-05-01", gaps |-> g, blank |-> b, byline |-> "By Jane Doe"] :
        g \in {{"title"}, {"text"}, {"title", "text"}}, b \in {"", Undefined}}
    \cup {[publishedAt |-> "2024-05-01", gaps |-> {}, blank |-> "", byline |-> by] :
            by \in Bylines}

NYTFeeds == UNION {[1..n -> NYTItems] : n \in 0..MaxFeedLen}

\* what can come back for a request: a response carrying a list, or a failure
\* (of the transport, or of the decoding of the response)
Answer(feed) == [ok |-> TRUE, feed |-> feed]
Failure == [ok |-> FALSE, feed |-> <<>>]

ItemId(i) == "a" \o ToString(i)

\* the image URL the provider sends with item number i
ProviderImage(i) == "https://img/" \o ItemId(i)

\* the value of part `f` of item `it` when it is there
Part(it, f, value) == IF f \in it.gaps THEN it.blank ELSE value

\* a NewsAPI response item (NewsApiArticle)
RawNewsApi(i, it) ==
    [source |-> [id |-> "bbc-news", name |-> "BBC News"],
     author |-> Part(it, "byline", "Jane Doe"),
     title |-> Part(it, "title", "title"),
     description |-> Part(it, "text", "text"),
     url |-> Part(it, "id", Part(it, "url", ItemId(i))),
     urlToImage |-> Part(it, "image", ProviderImage(i)),
     publishedAt |-> Part(it, "publishedAt", it.publishedAt)]

\* a New York Times response item (NYTArticle)
RawNYT(i, it) ==
    [uri |-> Part(it, "id", ItemId(i)),
     title |-> Part(it, "title", "title"),
     abstract |-> Part(it, "text", "text"),
     url |-> Part(it, "url", ItemId(i)),
     multimedia |-> [defined |-> "image" \notin it.gaps \/ it.blank = "",
                     list |-> IF "image" \in it.gaps THEN <<>>
                              ELSE <<[url |-> ProviderImage(i),
                                      type |-> "image"]>>],
     published_date |-> Part(it, "publishedAt", it.publishedAt),
     byline |-> IF "byline" \in DOMAIN it THEN it.byline
                ELSE Part(it, "byline", "By Jane Doe")]

\* a Guardian response item (GuardianArticle)
RawGuardian(i, it) ==
    [id |-> Part(it, "id", ItemId(i)),
     webTitle |-> Part(it, "title", "title"),
     webUrl |-> Part(it, "url", ItemId(i)),
     webPublicationDate |-> Part(it, "publishedAt", it.publishedAt),
     fields |-> [defined |-> "image" \notin it.gaps \/ it.blank = "",
                 thumbnail |-> Part(it, "image", ProviderImage(i))]]

NormalizeNewsApi(a) ==
    [id |-> a.url,
     source |-> [id |-> OrElse(a.source.id, "unknown"), name |-> a.source.name],
     title |-> a.title, description |-> a.description, url |-> a.url,
     imageUrl |-> OrElse(a.urlToImage, DEFAULT_IMAGE_URL),
     publishedAt |-> a.publishedAt,
     author |-> OrElse(a.author, Undefined)]

StripBy(byline) ==
    IF byline = Undefined THEN Undefined
    ELSE IF Len(byline) >= 3 /\ SubSeq(byline, 1, 3) = "By "
         THEN SubSeq(byline, 4, Len(byline))
         ELSE byline

\* article.multimedia?.[0]?.url
FirstMediaUrl(multimedia) ==
    IF ~multimedia.defined \/ multimedia.list = <<>> THEN Undefined
    ELSE multimedia.list[1].url

NormalizeNYT(a) ==
    [id |-> a.uri,
     source |-> [id |-> "nyt", name |-> "New York Times"],
     title |-> a.title, description |-> a.abstract, url |-> a.url,
     imageUrl |-> OrElse(FirstMediaUrl(a.multimedia), DEFAULT_IMAGE_URL),
     publishedAt |-> a.published_date,
     author |-> OrElse(StripBy(a.byline), Undefined)]

\* (faulty variant) the Guardian adapter without the placeholder
NormalizeGuardianWithoutPlaceholder(a) ==
    [id |-> a.id,
     source |-> [id |-> "guardian", name |-> "The Guardian"],
     title |-> a.webTitle, description |-> "", url |-> a.webUrl,
     imageUrl |-> IF a.fields.defined THEN a.fields.thumbnail ELSE Undefined,
     publishedAt |-> a.webPublicationDate,
     author |-> Undefined]

\* article.fields?.thumbnail
Thumbnail(fields) == IF ~fields.defined THEN Undefined ELSE fields.thumbnail

NormalizeGuardian(a) ==
    [id |-> a.id,
     source |-> [id |-> "guardian", name |-> "The Guardian"],
     title |-> a.webTitle, description |-> "", url |-> a.webUrl,
     imageUrl |-> OrElse(Thumbnail(a.fields), DEFAULT_IMAGE_URL),
     publishedAt |-> a.webPublicationDate,
     author |-> Undefined]

\* (faulty variant) a filter that keeps an item with a title or an abstract
NYTKeepEither(a) == Truthy(a.title) \/ Truthy(a.abstract)

NYTKeep(a) == Truthy(a.title) /\ Truthy(a.abstract)

\* what the adapter of `source` returns for a response carrying `feed`
AdapterResult(source, feed) ==
    CASE source = "newsapi" ->
            [i \in 1..Len(feed) |-> NormalizeNewsApi(RawNewsApi(i, feed[i]))]
      [] source = "nytimes" ->
            LET kept == SelectSeq([i \in 1..Len(feed) |-> RawNYT(i, feed[i])], NYTKeep)
            IN  [i \in 1..Len(kept) |-> NormalizeNYT(kept[i])]
      [] source = "guardian" ->
            [i \in 1..Len(feed) |-> NormalizeGuardian(RawGuardian(i, feed[i]))]
      [] OTHER -> <<>>

----------------------------------------------------------------------------
(* The requests the adapters send *)

\* the parameters that were set: name -> value, for the truthy values
Params(names, values) ==
    LET set == {i \in 1..Len(names) : Truthy(values[i])}
    IN  [n \in {names[i] : i \in set} |->
            values[CHOOSE i \in set : names[i] = n]]

RECURSIVE RemoveHyphens(_)
\* date.replace(/-/g, '')
RemoveHyphens(str) ==
    IF str = "" THEN ""
    ELSE LET rest == RemoveHyphens(SubSeq(str, 2, Len(str)))
         IN  IF SubSeq(str, 1, 1) = "-" THEN rest ELSE SubSeq(str, 1, 1) \o rest

\* fetchNewsApiArticles(query, category, from, to, author)
NewsApiRequest(query, category, from, to, author) ==
    [source |-> "newsapi",
     endpoint |-> IF Truthy(query) THEN "/everything" ELSE "/top-headlines",
     params |-> Params(<<"q", "category", "from", "to", "author", "country", "pageSize">>,
                       <<query, category, from, to, author,
                         IF Truthy(query) THEN Undefined ELSE "us", "20">>)]

\* fetchNYTArticles(section = 'all', searchQuery, fromDate, toDate)
NYTRequest(section, query, from, to) ==
    [source |-> "nytimes",
     endpoint |-> IF Truthy(query) THEN "/search/v2/articlesearch.json"
                  ELSE "/content/all/"
                       \o (IF section = Undefined THEN "all" ELSE section) \o ".json",
     params |-> Params(<<"q", "begin_date", "end_date">>,
                       <<query,
                         IF Truthy(from) THEN RemoveHyphens(from) ELSE Undefined,
                         IF Truthy(to) THEN RemoveHyphens(to) ELSE Undefined>>)]

\* fetchGuardianArticles(query, section, from, to, author)
GuardianRequest(query, section, from, to, author) ==
    [source |-> "guardian",
     endpoint |-> "/search",
     params |-> Params(<<"show-fields", "q", "section", "from-date", "to-date", "author">>,
                       <<"thumbnail", query, section, from, to, author>>)]

----------------------------------------------------------------------------
(* Aggregation: searchAllNews and getTopHeadlines *)

NoRequest == [source |-> "none"]

\* (faulty variant) searchAllNews without the keyword guard in front of the NYT call
SearchStepWithoutSkip(source, filters) ==
    CASE source = "guardian" ->
            GuardianRequest(Field(filters, "searchQuery"), Field(filters, "category"),
                            Field(filters, "fromDate"), Field(filters, "toDate"),
                            Field(filters, "author"))
      [] source = "nytimes" ->
            NYTRequest(OrElse(Field(filters, "category"), "all"),
                       Undefined, Undefined, Undefined)
      [] source = "newsapi" ->
            NewsApiRequest(Field(filters, "searchQuery"), Field(filters, "category"),
                           Field(filters, "fromDate"), Field(filters, "toDate"),
                           Field(filters, "author"))
      [] OTHER -> NoRequest

\* the body of one source's async callback in searchAllNews, up to its await:
\* the request it issues, or NoRequest when it returns [] without one
SearchStep(source, filters) ==
    IF source = "nytimes" /\ Truthy(Field(filters, "searchQuery")) THEN NoRequest
    ELSE CASE source = "guardian" ->
                GuardianRequest(Field(filters, "searchQuery"), Field(filters, "category"),
                                Field(filters, "fromDate"), Field(filters, "toDate"),
                                Field(filters, "author"))
           [] source = "nytimes" ->
                NYTRequest(OrElse(Field(filters, "category"), "all"),
                           Undefined, Undefined, Undefined)
           [] source = "newsapi" ->
                NewsApiRequest(Field(filters, "searchQuery"), Field(filters, "category"),
                               Field(filters, "fromDate"), Field(filters, "toDate"),
                               Field(filters, "author"))
           [] OTHER -> NoRequest

\* the same for getTopHeadlines(sources, category)
HeadlinesStep(source, category) ==
    CASE source = "guardian" ->
            GuardianRequest(Undefined, category, Undefined, Undefined, Undefined)
      [] source = "nytimes" ->
            NYTRequest(OrElse(category, "all"), Undefined, Undefined, Undefined)
      [] source = "newsapi" ->
            NewsApiRequest(Undefined, category, Undefined, Undefined, Undefined)
      [] OTHER -> NoRequest

Pending == [state |-> "pending"]
Fulfilled(list) == [state |-> "fulfilled", value |-> list]
Rejected == [state |-> "rejected"]

\* (faulty variant) the per-source callback without its try/catch: the error escapes
OnAdapterErrorRethrow(source) == Rejected

\* the inner catch of the per-source callback: log and return []
OnAdapterError(source) == Fulfilled(<<>>)

\* (faulty variant) a category counts as a search too
IsSearchingWithCategory(filters) ==
    \/ Truthy(Field(filters, "searchQuery"))
    \/ Truthy(Field(filters, "category"))
    \/ Truthy(Field(filters, "fromDate"))
    \/ Truthy(Field(filters, "toDate"))

\* const isSearching = Boolean(searchQuery || fromDate || toDate)
IsSearchingHook(filters) ==
    \/ Truthy(Field(filters, "searchQuery"))
    \/ Truthy(Field(filters, "fromDate"))
    \/ Truthy(Field(filters, "toDate"))

\* the function the queryFn calls
QueryFn(filters) ==
    IF IsSearchingHook(filters) THEN "searchAllNews" ELSE "getTopHeadlines"

\* sources.map(async ...) run up to the first await of every callback: all
\* requests are issued, in the order of `sources`, before anything is awaited
NewCall(key) ==
    LET fn == QueryFn(key.filters)
        step(s) == IF fn = "searchAllNews" THEN SearchStep(s, key.filters)
                   ELSE HeadlinesStep(s, Field(key.filters, "category"))
        plan == [i \in 1..Len(key.sources) |-> step(key.sources[i])]
        issued(r) == r # NoRequest
    IN  [key |-> key,
         fn |-> fn,
         requests |-> SelectSeq(plan, issued),
         settled |-> [i \in 1..Len(plan) |->
                        IF plan[i] = NoRequest THEN Fulfilled(<<>>) ELSE Pending],
         outcome |-> [i \in 1..Len(plan) |->
                        IF plan[i] = NoRequest THEN "skipped" ELSE "pending"],
         returned |-> [i \in 1..Len(plan) |-> <<>>],
         status |-> "running",
         value |-> <<>>]

\* (faulty variant) a result produced as soon as one promise is fulfilled
FinishAtFirst(c) ==
    IF c.status # "running" THEN {c}
    ELSE IF \E i \in 1..Len(c.settled) : c.settled[i] = Rejected
    THEN {[c EXCEPT !.status = "rejected"]}
    ELSE IF \A i \in 1..Len(c.settled) : c.settled[i] = Pending
    THEN {c}
    ELSE {[c EXCEPT !.status = "resolved", !.value = v] :
             v \in SortOutcomes(Flat([i \in 1..Len(c.settled) |->
                     IF c.settled[i] = Pending THEN <<>> ELSE c.settled[i].value]))}

\* Promise.all(searchPromises), then flat() and sort(): the ways call c can
\* stand once its promises are in the state c.settled
Finish(c) ==
    IF c.status # "running" THEN {c}
    ELSE IF \E i \in 1..Len(c.settled) : c.settled[i] = Rejected
    THEN {[c EXCEPT !.status = "rejected"]}
    ELSE IF \E i \in 1..Len(c.settled) : c.settled[i] = Pending
    THEN {c}
    ELSE {[c EXCEPT !.status = "resolved", !.value = v] :
             v \in SortOutcomes(Flat([i \in 1..Len(c.settled) |-> c.settled[i].value]))}

----------------------------------------------------------------------------
(* The react-query layer: useQuery({queryKey: ['news', sources, filters],
   queryFn, staleTime}) under the client options of App.tsx *)

\* the arguments of one use of the hook
Key(sources, filters) == [sources |-> sources, filters |-> filters]

\* (faulty variant) a query key that leaves the filters out
QueryKeyWithoutFilters(sources, filters) == <<"news", sources>>

\* queryKey: ['news', sources, filters]
QueryKey(sources, filters) == <<"news", sources, filters>>

\* the query key of the pair k
KeyOf(k) == QueryKey(k.sources, k.filters)

\* the state of a query that was just created for an observer
NewQuery ==
    [status |-> "pending", data |-> <<>>, hasData |-> FALSE, age |-> 0,
     fetching |-> FALSE, failureCount |-> 0]

\* (faulty variant) no staleTime: data is stale as soon as it arrives
IsStaleAtOnce(q) == TRUE

\* a query is stale when it holds no data or its data is staleTime old
IsStale(q) == ~q.hasData \/ q.age >= StaleTime

\* whether an observer that turns to `key` starts the queryFn
ShouldFetch(cch, key) ==
    \/ key \notin DOMAIN cch
    \/ /\ ~cch[key].fetching
       /\ IsStale(cch[key])

QueryOf(cch, key) == IF key \in DOMAIN cch THEN cch[key] ELSE NewQuery

Put(cch, key, q) == [k \in DOMAIN cch \cup {key} |-> IF k = key THEN q ELSE cch[k]]

\* the query state once the queryFn's promise stands as call c does
QueryAfter(q, c) ==
    IF c.status = "resolved"
    THEN [status |-> "success", data |-> c.value, hasData |-> TRUE, age |-> 0,
          fetching |-> FALSE, failureCount |-> 0]
    ELSE IF c.status = "rejected"
    THEN IF q.failureCount + 1 > Retry
         THEN [q EXCEPT !.status = "error", !.fetching = FALSE,
                        !.failureCount = q.failureCount + 1]
         ELSE [q EXCEPT !.fetching = TRUE, !.failureCount = q.failureCount + 1]
    ELSE [q EXCEPT !.fetching = TRUE]

\* (faulty variant) a result written to the query the observer is on
QueryOfCurrent(c) == KeyOf(cur)

\* the query that takes the result of call c: the one whose queryFn made it
QueryOfCall(c) == KeyOf(c.key)

\* the observer turns to `key`: the query is created if new and fetched if
\* that is due; a fetch in flight for the key is joined, not repeated
Observe(key) ==
    IF ShouldFetch(cache, KeyOf(key))
    THEN \E c \in Finish(NewCall(key)) :
            /\ calls' = Append(calls, c)
            /\ cache' = Put(cache, KeyOf(key),
                            QueryAfter([QueryOf(cache, KeyOf(key))
                                           EXCEPT !.failureCount = 0], c))
            /\ lastObserve' = "fetch"
    ELSE /\ UNCHANGED <<cache, calls>>
         /\ lastObserve' = IF cache[KeyOf(key)].fetching THEN "join" ELSE "cache"

----------------------------------------------------------------------------
(* useCombinedNews: what NewsFeed receives *)

\* the query the observer of NewsFeed is subscribed to
CurQuery == QueryOf(cache, KeyOf(cur))

Articles == IF CurQuery.hasData THEN CurQuery.data ELSE <<>>

IsLoading == CurQuery.status = "pending" /\ CurQuery.fetching

\* (faulty variant) an empty result counted as an error
IsErrorOnEmpty == CurQuery.status = "error" \/ (CurQuery.hasData /\ CurQuery.data = <<>>)

IsError == CurQuery.status = "error"

FromSource(source) == {i \in 1..Len(Articles) : Articles[i].source.id = source}

SourceFailed(source) == FromSource(source) = {}

FailedSources == SelectSeq(cur.sources, SourceFailed)

HasPartialData == Len(Articles) > 0 /\ Len(FailedSources) < Len(cur.sources)

----------------------------------------------------------------------------
(* Inputs *)

FilterValue(name) ==
    CASE name = "searchQuery" -> "climate"
      [] name = "category" -> "Sports"
      [] name = "fromDate" -> "2024-05-01"
      [] name = "toDate" -> "2024-05-31"
      [] name = "author" -> "Jane Doe"

\* the filters object NewsFeed builds once a search was executed with nothing set
BlankSearch == [n \in FilterFields \ {"author"} |-> ""]

FilterInputs ==
    {[n \in S |-> FilterValue(n)] : S \in SUBSET FilterFields} \cup {BlankSearch}

SourceLists ==
    {s \in UNION {[1..n -> NewsSource] : n \in 0..3} :
        \A i, j \in 1..Len(s) : s[i] = s[j] => i = j}

----------------------------------------------------------------------------
(* Actions *)

\* first render of NewsFeed: the observer subscribes to the query of `cur`
\* no ErrorBanner in the tree
NoBanner == [mounted |-> FALSE, isVisible |-> FALSE, timer |-> FALSE, failedSources |-> <<>>]

\* NewsFeed gets past the loading and the error return and renders
\* <ErrorBanner failedSources={failedSources} />
RendersBanner ==
    /\ mounted
    /\ ~IsLoading
    /\ ~IsError
    /\ HasPartialData
    /\ Len(FailedSources) > 0

\* what a render of NewsFeed with the state this step leaves does to the
\* ErrorBanner: an instance that stays in the tree keeps its state and takes
\* the new failedSources; a new instance starts visible and sets its timer,
\* once; an instance that leaves the tree clears its timer
RenderBanner ==
    errorBanner' =
        IF RendersBanner'
        THEN IF errorBanner.mounted
             THEN [errorBanner EXCEPT !.failedSources = FailedSources']
             ELSE [mounted |-> TRUE, isVisible |-> TRUE, timer |-> TRUE,
                   failedSources |-> FailedSources']
        ELSE NoBanner

\* the 3000 ms of the timer are over: setIsVisible(false)
BannerTimeout ==
    /\ errorBanner.timer
    /\ errorBanner' = [errorBanner EXCEPT !.isVisible = FALSE, !.timer = FALSE]
    /\ UNCHANGED <<cur, hookVars, uiVars>>

Mount ==
    /\ ~mounted
    /\ mounted' = TRUE
    /\ Observe(cur)
    /\ UNCHANGED <<cur, renders, upstream, uiVars>>
    /\ RenderBanner

\* NewsFeed renders again with the pair `key`, the same as before or another
Render(key) ==
    /\ mounted
    /\ renders < MaxRenders
    /\ renders' = renders + 1
    /\ cur' = key
    /\ IF KeyOf(key) = KeyOf(cur)
       THEN UNCHANGED <<cache, calls>> /\ lastObserve' = "same"
       ELSE Observe(key)
    /\ UNCHANGED <<mounted, upstream, uiVars>>
    /\ RenderBanner

\* the request of source number i of call number n settles: the provider
\* answers with a list, or the request (or the decoding of its answer) fails.
\* With the last one settled the call returns and the query takes its result.
AdapterSettle(n, i, ok, feed) ==
    LET c == calls[n]
        source == c.key.sources[i]
        settled == [c.settled EXCEPT ![i] =
                      IF ok THEN Fulfilled(AdapterResult(source, feed))
                      ELSE OnAdapterError(source)]
        c1 == [c EXCEPT !.settled = settled,
                        !.outcome[i] = IF ok THEN "resolved" ELSE "rejected",
                        !.returned[i] = IF ok THEN AdapterResult(source, feed) ELSE <<>>]
    IN  /\ c.status = "running"
        /\ c.settled[i] = Pending
        /\ ok => SumLen([j \in 1..Len(c.settled) |->
                           IF c.settled[j] = Pending THEN <<>> ELSE c.settled[j].value])
                    + Len(feed) <= MaxMerged
        /\ \E c2 \in Finish(c1) :
             LET q == QueryAfter(cache[QueryOfCall(c)], c2)
                 retry == c2.status = "rejected" /\ q.status # "error"
             IN  /\ calls' = IF retry
                             THEN Append([calls EXCEPT ![n] = c2], NewCall(c.key))
                             ELSE [calls EXCEPT ![n] = c2]
                 /\ cache' = [cache EXCEPT ![QueryOfCall(c)] = q]
        /\ UNCHANGED <<cur, mounted, renders, lastObserve, upstream, uiVars>>
        /\ RenderBanner

Settle ==
    \E n \in 1..Len(calls) : \E i \in 1..Len(calls[n].settled) :
        \E r \in upstream : AdapterSettle(n, i, r.ok, r.feed)

\* a minute passes, no timer of 3 seconds pending
Tick ==
    /\ ~errorBanner.timer
    /\ \E k \in DOMAIN cache : cache[k].hasData /\ cache[k].age < StaleTime
    /\ cache' = [k \in DOMAIN cache |->
                   IF cache[k].hasData /\ cache[k].age < StaleTime
                   THEN [cache[k] EXCEPT !.age = @ + 1] ELSE cache[k]]
    /\ UNCHANGED <<cur, mounted, calls, renders, lastObserve, upstream, uiVars,
                   errorBanner>>

----------------------------------------------------------------------------
(* The components above NewsFeed: SearchBar, FilterDrawer *)

IsSpace(ch) == ch = " "

RECURSIVE TrimStart(_)
TrimStart(str) ==
    IF str # "" /\ IsSpace(SubSeq(str, 1, 1)) THEN TrimStart(SubSeq(str, 2, Len(str)))
    ELSE str

RECURSIVE TrimEnd(_)
TrimEnd(str) ==
    IF str # "" /\ IsSpace(SubSeq(str, Len(str), Len(str)))
    THEN TrimEnd(SubSeq(str, 1, Len(str) - 1))
    ELSE str

\* String.prototype.trim
Trim(str) == TrimEnd(TrimStart(str))

\* (faulty variant) the browse object passed again when nothing is set
FeedFiltersBrowseWhenBlank(searching, query, category, range) ==
    IF searching /\ (Trim(query) # "" \/ category # "" \/ range.fromDate # ""
                      \/ range.toDate # "")
    THEN [searchQuery |-> Trim(query), category |-> category,
          fromDate |-> range.fromDate, toDate |-> range.toDate]
    ELSE EmptyFilters

\* the filters object NewsFeed builds from the search state
FeedFilters(searching, query, category, range) ==
    IF searching
    THEN [searchQuery |-> Trim(query), category |-> category,
          fromDate |-> range.fromDate, toDate |-> range.toDate]
    ELSE EmptyFilters

\* A user action is over: it is counted, and NewsFeed renders with the state
\* the action leaves, which gives the pair it passes to
\* useCombinedNews.  What the hook does with a pair is the subject of Mount,
\* Render and Settle; here the query cache stands still.
Rendered ==
    /\ steps < MaxSteps
    /\ steps' = steps + 1
    /\ cur' = Key(selectedSources',
                  FeedFilters(isSearching', searchQuery', selectedCategory', dateRange'))
    /\ UNCHANGED hookVars
    /\ RenderBanner

\* the names FilterDrawer shows for the provider tags
DisplayName(source) ==
    CASE source = "newsapi" -> "BBC"
      [] source = "guardian" -> "The Guardian"
      [] source = "nytimes" -> "New York Times"
      [] OTHER -> ""

\* the value FilterDrawer gives localSources for the selected sources
LocalSourcesFor(sources) ==
    IF sources = <<>> \/ {"newsapi", "guardian", "nytimes"} \subseteq Range(sources)
    THEN <<"All Sources">>
    ELSE [i \in 1..Len(sources) |-> DisplayName(sources[i])]

\* the provider tag handleApplyFilters gives a name of localSources
TagOf(name) ==
    CASE name = "New York Times" -> "nytimes"
      [] name = "The Guardian" -> "guardian"
      [] OTHER -> "newsapi"

\* the effect of FilterDrawer on [dateRange, selectedCategory, selectedSources],
\* run with the values this step leaves
SyncLocal ==
    /\ localDateRange' = dateRange'
    /\ localCategory' = OrElse(selectedCategory', "")
    /\ localSources' = LocalSourcesFor(selectedSources')

\* SearchBar: onChange of the input
TypeQuery(value) ==
    /\ searchQuery' = value
    /\ UNCHANGED <<dateRange, selectedCategory, isSearching, selectedSources,
                   filterVars, personalizeVars, localStorage, lastSaved>>
    /\ Rendered

\* SearchBar: Enter in the input or a click on the button; executeSearch
Search ==
    /\ isSearching' = TRUE
    /\ UNCHANGED <<searchQuery, dateRange, selectedCategory, selectedSources,
                   filterVars, personalizeVars, localStorage, lastSaved>>
    /\ Rendered

\* Header: the Filter button
OpenFilter ==
    /\ ~isFilterOpen
    /\ isFilterOpen' = TRUE
    /\ UNCHANGED <<searchVars, selectedSources, localDateRange, localCategory,
                   localSources, personalizeVars, localStorage, lastSaved>>
    /\ Rendered

\* FilterDrawer: the close button or the backdrop; onClose
CloseFilter ==
    /\ isFilterOpen
    /\ isFilterOpen' = FALSE
    /\ UNCHANGED <<searchVars, selectedSources, localDateRange, localCategory,
                   localSources, personalizeVars, localStorage, lastSaved>>
    /\ Rendered

\* FilterDrawer: onChange of the category select
SetLocalCategory(value) ==
    /\ isFilterOpen
    /\ localCategory' = value
    /\ UNCHANGED <<searchVars, selectedSources, isFilterOpen, localDateRange,
                   localSources, personalizeVars, localStorage, lastSaved>>
    /\ Rendered

\* FilterDrawer: onChange of the sources select; no option value has a comma,
\* so value.split(",") is the one-element list
SetLocalSources(value) ==
    /\ isFilterOpen
    /\ localSources' = <<value>>
    /\ UNCHANGED <<searchVars, selectedSources, isFilterOpen, localDateRange,
                   localCategory, personalizeVars, localStorage, lastSaved>>
    /\ Rendered

\* FilterDrawer: onChange of the From date input
SetLocalFromDate(value) ==
    /\ isFilterOpen
    /\ localDateRange' = [localDateRange EXCEPT !.fromDate = value]
    /\ UNCHANGED <<searchVars, selectedSources, isFilterOpen, localCategory,
                   localSources, personalizeVars, localStorage, lastSaved>>
    /\ Rendered

\* FilterDrawer: onChange of the To date input
SetLocalToDate(value) ==
    /\ isFilterOpen
    /\ localDateRange' = [localDateRange EXCEPT !.toDate = value]
    /\ UNCHANGED <<searchVars, selectedSources, isFilterOpen, localCategory,
                   localSources, personalizeVars, localStorage, lastSaved>>
    /\ Rendered

\* (faulty variant) handleApplyFilters without the test for a change
ApplyFiltersAlways ==
    /\ isFilterOpen
    /\ selectedCategory' = localCategory
    /\ dateRange' = [fromDate |-> localDateRange.fromDate, toDate |-> localDateRange.toDate]
    /\ selectedSources' = IF "All Sources" \in Range(localSources) THEN AllSources
                          ELSE [i \in 1..Len(localSources) |-> TagOf(localSources[i])]
    /\ isSearching' = TRUE
    /\ SyncLocal
    /\ isFilterOpen' = FALSE
    /\ UNCHANGED <<searchQuery, personalizeVars, localStorage, lastSaved>>
    /\ Rendered

\* FilterDrawer: handleApplyFilters
ApplyFilters ==
    LET newSelectedSources ==
            IF "All Sources" \in Range(localSources) THEN AllSources
            ELSE [i \in 1..Len(localSources) |-> TagOf(localSources[i])]
        hasCategoryChange == localCategory # selectedCategory
        hasDateChange == \/ localDateRange.fromDate # dateRange.fromDate
                         \/ localDateRange.toDate # dateRange.toDate
        hasSourceChange ==
            \/ Len(newSelectedSources) # Len(selectedSources)
            \/ ~(Range(newSelectedSources) \subseteq Range(selectedSources))
            \/ ~(Range(selectedSources) \subseteq Range(newSelectedSources))
    IN  /\ isFilterOpen
        /\ IF hasCategoryChange \/ hasDateChange \/ hasSourceChange
           THEN /\ selectedCategory' = localCategory
                /\ dateRange' = [fromDate |-> localDateRange.fromDate,
                                 toDate |-> localDateRange.toDate]
                /\ selectedSources' = newSelectedSources
                /\ isSearching' = TRUE
                /\ SyncLocal
           ELSE UNCHANGED <<selectedCategory, dateRange, selectedSources, isSearching,
                            localDateRange, localCategory, localSources>>
        /\ isFilterOpen' = FALSE
        /\ UNCHANGED <<searchQuery, personalizeVars, localStorage, lastSaved>>
        /\ Rendered

\* FilterDrawer: handleClearFilters
ClearFilters ==
    /\ isFilterOpen
    /\ selectedSources' = <<"newsapi", "guardian", "nytimes">>
    /\ dateRange' = [fromDate |-> "", toDate |-> ""]
    /\ selectedCategory' = ""
    /\ isSearching' = TRUE
    /\ SyncLocal
    /\ isFilterOpen' = FALSE
    /\ UNCHANGED <<searchQuery, personalizeVars, localStorage, lastSaved>>
    /\ Rendered

----------------------------------------------------------------------------
(* PersonalizeDrawer and the local store *)

\* sourceOptions: display name -> provider tag
SourceOptionNames == {"NewsAPI", "The Guardian", "New York Times"}

SourceOptionValue(display) ==
    CASE display = "NewsAPI" -> "newsapi"
      [] display = "The Guardian" -> "guardian"
      [] display = "New York Times" -> "nytimes"

\* the preferences of a drawer that has loaded nothing
EmptyPreferences == [categories |-> <<>>, authorFilter |-> "", sources |-> <<>>]

\* JSON.stringify and JSON.parse.  A stored item is kept as the value its text
\* stands for; the values stored here are records of strings, booleans and
\* arrays of strings without undefined fields, which the text carries whole.
Stringify(value) == [json |-> value]
Parse(text) == text.json

\* localStorage.getItem(name) is not null
HasItem(name) == name \in DOMAIN localStorage

\* (faulty variant) a write that leaves an item that is there as it is
SetItemIfAbsent(store, name, text) ==
    [n \in DOMAIN store \cup {name} |-> IF n \in DOMAIN store THEN store[n] ELSE text]

\* localStorage.setItem
SetItem(store, name, text) ==
    [n \in DOMAIN store \cup {name} |-> IF n = name THEN text ELSE store[n]]

\* (faulty variant) a removal that clears the whole store
RemoveEveryItem(store, name) == [n \in {} |-> store[n]]

\* localStorage.removeItem
RemoveItem(store, name) == [n \in DOMAIN store \ {name} |-> store[n]]

\* (faulty variant) a migration that sets authorFilter and keeps `authors`
MigrateKeepingAuthors(parsed) ==
    IF "authors" \in DOMAIN parsed
    THEN [f \in DOMAIN parsed \cup {"authorFilter"} |->
             IF f = "authorFilter"
             THEN IF parsed.authors = <<>> THEN "" ELSE OrElse(parsed.authors[1], "")
             ELSE parsed[f]]
    ELSE parsed

\* the migration of a parsed record that has an `authors` array
Migrate(parsed) ==
    IF "authors" \in DOMAIN parsed
    THEN [f \in (DOMAIN parsed \ {"authors"}) \cup {"authorFilter"} |->
             IF f = "authorFilter"
             THEN IF parsed.authors = <<>> THEN "" ELSE OrElse(parsed.authors[1], "")
             ELSE parsed[f]]
    ELSE parsed

\* the effect of PersonalizeDrawer on [isOpen], when isOpen has become true
LoadPreferences ==
    /\ preferences' = IF HasItem("newsHubPreferences")
                      THEN Migrate(Parse(localStorage["newsHubPreferences"]))
                      ELSE preferences
    /\ applyImmediately' = IF HasItem("applyImmediately")
                           THEN Parse(localStorage["applyImmediately"])
                           ELSE applyImmediately

\* the provider tags of the display names that are source options
SourceIds(names) ==
    LET known == SelectSeq(names, LAMBDA d : d \in SourceOptionNames)
    IN  [i \in 1..Len(known) |-> SourceOptionValue(known[i])]

\* applyPreferences without the default to all sources: the mapped list is
\* applied as it is
ApplyPreferencesAsMapped(prefs) ==
    /\ selectedCategory' = IF Len(prefs.categories) > 0 THEN prefs.categories[1]
                           ELSE selectedCategory
    /\ selectedSources' = SourceIds(prefs.sources)
    /\ isSearching' = TRUE
    /\ UNCHANGED <<searchQuery, dateRange>>
    /\ SyncLocal

\* applyPreferences(prefs): the category, the sources, executeSearch; the
\* authorFilterChanged event it dispatches has no listener.  FilterDrawer's
\* effect follows, selectedSources being a new array.
ApplyPreferences(prefs) ==
    /\ selectedCategory' = IF Len(prefs.categories) > 0 THEN prefs.categories[1]
                           ELSE selectedCategory
    /\ selectedSources' = IF Len(prefs.sources) > 0 /\ Len(SourceIds(prefs.sources)) > 0
                          THEN SourceIds(prefs.sources)
                          ELSE <<"newsapi", "guardian", "nytimes">>
    /\ isSearching' = TRUE
    /\ UNCHANGED <<searchQuery, dateRange>>
    /\ SyncLocal

\* a handler that changes no state outside the drawer
NothingApplied ==
    UNCHANGED <<searchVars, selectedSources, localDateRange, localCategory, localSources>>

\* (faulty variant) a drawer that applies what it loads when it opens
OpenPersonalizeApplying ==
    /\ ~isPersonalizeOpen
    /\ isPersonalizeOpen' = TRUE
    /\ LoadPreferences
    /\ ApplyPreferences(preferences')
    /\ UNCHANGED <<isFilterOpen, localStorage, lastSaved>>
    /\ Rendered

\* Header: the Personalize button; the drawer opens and loads
OpenPersonalize ==
    /\ ~isPersonalizeOpen
    /\ isPersonalizeOpen' = TRUE
    /\ LoadPreferences
    /\ UNCHANGED <<searchVars, selectedSources, filterVars, localStorage, lastSaved>>
    /\ Rendered

\* PersonalizeDrawer: the close button or the backdrop; onClose
ClosePersonalize ==
    /\ isPersonalizeOpen
    /\ isPersonalizeOpen' = FALSE
    /\ UNCHANGED <<searchVars, selectedSources, filterVars, preferences,
                   applyImmediately, localStorage, lastSaved>>
    /\ Rendered

\* [...list, value] or list.filter(item => item !== value)
Toggled(list, value, checked) ==
    IF checked THEN Append(list, value) ELSE SelectSeq(list, LAMBDA item : item # value)

\* PersonalizeDrawer: a click on a checkbox; handlePreferenceChange(type,
\* value, checked), the box having shown whether the list includes the value
TogglePreference(type, value) ==
    LET checked == value \notin Range(preferences[type])
        updatedPreferences ==
            [preferences EXCEPT ![type] = Toggled(preferences[type], value, checked)]
    IN  /\ isPersonalizeOpen
        /\ preferences' = updatedPreferences
        /\ IF applyImmediately THEN ApplyPreferences(updatedPreferences)
           ELSE NothingApplied
        /\ UNCHANGED <<isFilterOpen, isPersonalizeOpen, applyImmediately, localStorage, lastSaved>>
        /\ Rendered

\* PersonalizeDrawer: onChange of the author input; handleAuthorFilterChange
EditAuthorFilter(value) ==
    LET updatedPreferences ==
            [f \in DOMAIN preferences \cup {"authorFilter"} |->
                IF f = "authorFilter" THEN value ELSE preferences[f]]
    IN  /\ isPersonalizeOpen
        /\ preferences' = updatedPreferences
        /\ IF applyImmediately THEN ApplyPreferences(updatedPreferences)
           ELSE NothingApplied
        /\ UNCHANGED <<isFilterOpen, isPersonalizeOpen, applyImmediately, localStorage, lastSaved>>
        /\ Rendered

\* PersonalizeDrawer: handleSave
SavePreferences ==
    /\ isPersonalizeOpen
    /\ localStorage' = SetItem(SetItem(localStorage, "newsHubPreferences",
                                       Stringify(preferences)),
                               "applyImmediately", Stringify(applyImmediately))
    /\ lastSaved' = [saved |-> TRUE, reset |-> FALSE, preferences |-> preferences,
                     applyImmediately |-> applyImmediately]
    /\ ApplyPreferences(preferences)
    /\ isPersonalizeOpen' = FALSE
    /\ UNCHANGED <<isFilterOpen, preferences, applyImmediately>>
    /\ Rendered

\* PersonalizeDrawer: handleReset
ResetPreferences ==
    /\ isPersonalizeOpen
    /\ preferences' = EmptyPreferences
    /\ localStorage' = RemoveItem(localStorage, "newsHubPreferences")
    /\ lastSaved' = [lastSaved EXCEPT !.reset = TRUE]
    /\ selectedCategory' = ""
    /\ selectedSources' = <<"newsapi", "guardian", "nytimes">>
    /\ isSearching' = TRUE
    /\ UNCHANGED <<searchQuery, dateRange, isFilterOpen, isPersonalizeOpen,
                   applyImmediately>>
    /\ SyncLocal
    /\ Rendered

----------------------------------------------------------------------------
(* The components in use *)

EmptyStore == [n \in {} |-> Stringify("")]

\* the state of the components after the first render, over a local store
\* that holds `store`
UIStart(store) ==
    /\ searchQuery = ""
    /\ dateRange = [fromDate |-> "", toDate |-> ""]
    /\ selectedCategory = ""
    /\ isSearching = FALSE
    /\ selectedSources = <<"newsapi", "guardian", "nytimes">>
    /\ isFilterOpen = FALSE
    /\ localDateRange = [fromDate |-> "", toDate |-> ""]
    /\ localCategory = ""
    /\ localSources = <<"All Sources">>
    /\ isPersonalizeOpen = FALSE
    /\ preferences = EmptyPreferences
    /\ applyImmediately = FALSE
    /\ localStorage = store
    /\ lastSaved = [saved |-> FALSE, reset |-> FALSE, preferences |-> EmptyPreferences,
                    applyImmediately |-> FALSE]
    /\ steps = 0

\* what the user types, picks and ticks
QueryInputs == {"", "climate", " climate "}
CategoryInputs == {"", "Sports"}
SourceSelectOptions == {"All Sources", "New York Times", "The Guardian", "BBC"}
FromDateInputs == {"", "2024-05-01"}
ToDateInputs == {"", "2024-05-31"}
AuthorInputs == {"", "Jane Doe"}
SourceBoxes == {"The Guardian", "New York Times"}
CategoryBoxes == {"Sports", "Technology"}

\* what the local store can hold when the application starts: nothing, or
\* what an earlier session saved, under this or under the legacy format
StoredPreferences ==
    {[categories |-> <<>>, authorFilter |-> "Jane Doe", sources |-> <<"BBC">>],
     [categories |-> <<"Sports">>, authors |-> <<"Jane Doe", "John Roe">>,
      sources |-> <<"The Guardian">>],
     [categories |-> <<>>, authors |-> <<>>, sources |-> <<>>]}

StoreInputs ==
    {EmptyStore, SetItem(EmptyStore, "applyImmediately", Stringify(TRUE))}
    \cup {SetItem(EmptyStore, "newsHubPreferences", Stringify(r)) : r \in StoredPreferences}
    \cup {SetItem(SetItem(EmptyStore, "newsHubPreferences", Stringify(r)),
                  "applyImmediately", Stringify(TRUE)) : r \in StoredPreferences}

\* the fetch orchestrator and NewsFeed before NewsFeed has subscribed
HookIdle ==
    /\ mounted = FALSE
    /\ cache = [k \in {} |-> NewQuery]
    /\ calls = <<>>
    /\ renders = 0
    /\ lastObserve = "none"
    /\ errorBanner = NoBanner

InitUI ==
    /\ cur = Key(AllSources, EmptyFilters)
    /\ upstream = {Answer(<<Item("2024-05-01")>>)}
    /\ HookIdle
    /\ \E store \in StoreInputs : UIStart(store)

TypeQueryAny == \E value \in QueryInputs : TypeQuery(value)
SetLocalCategoryAny == \E value \in CategoryInputs : SetLocalCategory(value)
SetLocalSourcesAny == \E value \in SourceSelectOptions : SetLocalSources(value)
SetLocalFromDateAny == \E value \in FromDateInputs : SetLocalFromDate(value)
SetLocalToDateAny == \E value \in ToDateInputs : SetLocalToDate(value)
ToggleSourceAny == \E value \in SourceBoxes : TogglePreference("sources", value)
ToggleCategoryAny == \E value \in CategoryBoxes : TogglePreference("categories", value)
EditAuthorFilterAny == \E value \in AuthorInputs : EditAuthorFilter(value)

NextUI ==
    \/ TypeQueryAny \/ Search
    \/ OpenFilter \/ CloseFilter
    \/ SetLocalCategoryAny \/ SetLocalSourcesAny
    \/ SetLocalFromDateAny \/ SetLocalToDateAny
    \/ ApplyFilters \/ ClearFilters
    \/ OpenPersonalize \/ ClosePersonalize
    \/ ToggleSourceAny \/ ToggleCategoryAny \/ EditAuthorFilterAny
    \/ SavePreferences \/ ResetPreferences

SpecUI == InitUI /\ [][NextUI]_vars

----------------------------------------------------------------------------
(* One use of the orchestrator, with any pair and any provider answers *)

SortFilters == {EmptyFilters, [n \in {"searchQuery"} |-> FilterValue(n)]}

InitFetch ==
    /\ \/ /\ cur \in {Key(s, f) : s \in SourceLists, f \in SortFilters}
          /\ upstream = {Answer(f) : f \in Feeds} \cup {Failure}
       \/ /\ cur \in {Key(s, f) : s \in SourceLists, f \in FilterInputs}
          /\ upstream = {Answer(<<Item("2024-05-01")>>), Failure}
       \/ /\ cur \in {Key(s, EmptyFilters) : s \in SourceLists}
          /\ upstream = {Answer(f) : f \in GapFeeds}
    /\ HookIdle
    /\ UIStart(EmptyStore)

NextFetch == Mount \/ Settle

SpecFetch == InitFetch /\ [][NextFetch]_vars

\* one aggregation whose providers answer with one article or fail
InitSettling ==
    /\ cur \in {Key(s, f) : s \in SourceLists, f \in FilterInputs}
    /\ upstream = {Answer(<<Item("2024-05-01")>>), Failure}
    /\ HookIdle
    /\ UIStart(EmptyStore)

\* every adapter call settles in the end: a request that is in flight is
\* answered or fails
SpecFetchFair == InitSettling /\ [][NextFetch]_vars /\ WF_vars(Settle)

\* one aggregation that asks the New York Times, browsing or searching, the
\* provider answering every request with one and the same list
InitNYT ==
    /\ cur \in {Key(src, f) : src \in {<<"nytimes">>, <<"guardian", "nytimes">>},
                              f \in SortFilters}
    /\ \E feed \in NYTFeeds : upstream = {Answer(feed)}
    /\ HookIdle
    /\ UIStart(EmptyStore)

SpecNYT == InitNYT /\ [][NextFetch]_vars

----------------------------------------------------------------------------
(* The orchestrator in use: NewsFeed is mounted with the pair of a fresh
   application, renders again with other pairs, and time passes *)

RenderFilters ==
    {EmptyFilters, BlankSearch} \cup {[n \in {m} |-> FilterValue(n)] : m \in FilterFields}

RenderKeys ==
    {Key(AllSources, f) : f \in RenderFilters}
    \cup {Key(s, EmptyFilters) :
            s \in {<<"guardian">>, <<"nytimes", "guardian">>, <<"guardian", "nytimes">>}}

Init ==
    /\ cur = Key(AllSources, EmptyFilters)
    /\ upstream = {Answer(<<Item("2024-05-01")>>)}
    /\ HookIdle
    /\ UIStart(EmptyStore)

Rerender == \E key \in RenderKeys : Render(key)

Next == Mount \/ Rerender \/ Settle \/ Tick \/ BannerTimeout

Spec == Init /\ [][Next]_vars

----------------------------------------------------------------------------
(* Claims about one aggregation *)

CallIds == 1..Len(calls)

AllSettled(c) == \A i \in 1..Len(c.outcome) : c.outcome[i] # "pending"

\* C1: an aggregation call never rejects; once every adapter call has settled
\* it has resolved, with a permutation of the concatenation of the lists of
\* the adapters that resolved (a rejecting adapter contributes nothing), and
\* the orchestrator's isError is false.
C1_MergeKeepsEveryArticle ==
    /\ ~IsError
    /\ \A n \in CallIds :
          LET c == calls[n]
          IN  /\ c.status # "rejected"
              /\ AllSettled(c) => c.status = "resolved"
              /\ c.status = "resolved" => IsPermutation(c.value, Flat(c.returned))

\* one of three adapters rejected, the other two resolved with N >= 1 and
\* M >= 1 articles, N + M articles were returned, two of them with one id
C1_Witness ==
    \E n \in CallIds :
        LET c == calls[n]
            rej == {i \in 1..3 : c.outcome[i] = "rejected"}
            res == {i \in 1..3 : c.outcome[i] = "resolved" /\ c.returned[i] # <<>>}
        IN  /\ Len(c.key.sources) = 3
            /\ c.status = "resolved"
            /\ Cardinality(rej) = 1
            /\ Cardinality(res) = 2
            /\ Len(c.value) = SumLen(c.returned)
            /\ \E i, j \in 1..Len(c.value) :
                  /\ c.value[i].id = c.value[j].id
                  /\ c.value[i].source.id # c.value[j].source.id
            /\ ~IsError

\* the timestamp of the article at position i of list v is at least that of
\* the next one
Descending(v, i) ==
    /\ ~IsNaNDate(v[i].publishedAt)
    /\ ~IsNaNDate(v[i + 1].publishedAt)
    /\ GetTime(v[i].publishedAt) >= GetTime(v[i + 1].publishedAt)

\* C2 (as claimed): every result of searchAllNews and getTopHeadlines is
\* sorted by publishedAt descending, whatever publishedAt values the adapters
\* deliver
C2_ResultSortedDescending ==
    \A n \in CallIds :
        calls[n].status = "resolved" =>
            \A i \in 1..(Len(calls[n].value) - 1) : Descending(calls[n].value, i)

\* C3 (as claimed): the merged list is the stable sort of the concatenation
\* taken in the order of `sources`, whichever request settled first
C3_OrderIndependentOfSettling ==
    \A n \in CallIds :
        calls[n].status = "resolved" =>
            calls[n].value = StableSort(Flat(calls[n].returned))

C5_PartialIffSomeButNotAllFailed ==
    HasPartialData <=> /\ Len(Articles) > 0
                       /\ Len(FailedSources) >= 1
                       /\ Len(FailedSources) < Len(cur.sources)

\* C6 (as claimed): source.id of every article an adapter returns is one of
\* the tags of NewsSource
C6_SourceIdIsProviderTag ==
    \A n \in CallIds : \A i \in 1..Len(calls[n].returned) :
        \A j \in 1..Len(calls[n].returned[i]) :
            calls[n].returned[i][j].source.id \in NewsSource

\* the filters carry a non-empty value for `name`
Present(filters, name) == name \in DOMAIN filters /\ filters[name] # ""

\* C7: a use of the hook calls searchAllNews iff its filters carry a non-empty
\* searchQuery, fromDate or toDate, and getTopHeadlines otherwise, whatever
\* category and author are.
C7_SearchModeIffQueryOrDates ==
    \A n \in CallIds :
        LET c == calls[n]
            search == \E name \in {"searchQuery", "fromDate", "toDate"} :
                          Present(c.key.filters, name)
        IN  /\ c.fn \in {"searchAllNews", "getTopHeadlines"}
            /\ c.fn = "searchAllNews" <=> search
            /\ ~search => \A i \in 1..Len(c.requests) :
                              c.requests[i].endpoint \in
                                  {"/top-headlines", "/search", "/content/all/all.json",
                                   "/content/all/Sports.json"}

\* filters with a category and an author and nothing else ran in browse mode
C7_Witness ==
    \E n \in CallIds :
        /\ DOMAIN calls[n].key.filters = {"category", "author"}
        /\ Present(calls[n].key.filters, "category")
        /\ Present(calls[n].key.filters, "author")
        /\ calls[n].fn = "getTopHeadlines"
        /\ Len(calls[n].requests) = 3
        /\ calls[n].status = "resolved"

\* request r hands the keyword and the other fields of `filters` to the
\* provider, under the provider's parameter names
CarriesFilters(r, filters) ==
    LET names == IF r.source = "newsapi"
                 THEN [searchQuery |-> "q", category |-> "category", fromDate |-> "from",
                       toDate |-> "to", author |-> "author"]
                 ELSE [searchQuery |-> "q", category |-> "section", fromDate |-> "from-date",
                       toDate |-> "to-date", author |-> "author"]
    IN  \A f \in FilterFields :
            IF Present(filters, f)
            THEN names[f] \in DOMAIN r.params /\ r.params[names[f]] = filters[f]
            ELSE names[f] \notin DOMAIN r.params

----------------------------------------------------------------------------
(* Claims about the cache *)

\* the cache entry of the pair k, under the key ['news', sources, filters]
Entry(k) ==
    IF <<"news", k.sources, k.filters>> \in DOMAIN cache
    THEN cache[<<"news", k.sources, k.filters>>] ELSE NewQuery

\* the pair k has resolved data younger than five minutes
Fresh(k) == Entry(k).hasData /\ Entry(k).age < 5

\* a fetch for the pair k is in flight
InFlight(k) == \E n \in CallIds : calls[n].key = k /\ calls[n].status = "running"

\* this step starts an aggregation call for the pair k
Starts(k) == \E n \in (Len(calls) + 1)..Len(calls') : calls'[n].key = k

\* C9: while a pair holds data that resolved less than five minutes ago, no
\* step starts an aggregation call (and so no adapter call) for it and a
\* render with that pair returns the list that was resolved; while a fetch for
\* a pair is in flight, no step starts a second one for it.
C9_FreshKeyIsServedFromCache ==
    [][\A k \in RenderKeys :
          /\ Fresh(k) \/ InFlight(k) => ~Starts(k)
          /\ (Fresh(k) /\ cur' = k /\ renders' # renders) =>
                /\ Articles' = Entry(k).data
                /\ Len(calls') = Len(calls)]_vars

\* the feed went to another pair and came back within the window to a pair
\* that had resolved: the list is served from the cache, and the pair was
\* fetched once
C9_Witness ==
    /\ lastObserve = "cache"
    /\ renders = 2
    /\ Fresh(cur)
    /\ Entry(cur).age >= 1
    /\ Cardinality({n \in CallIds : calls[n].key = cur}) = 1
    /\ Len(calls) = 2
    /\ Len(Articles) > 0
    /\ \E n \in CallIds : calls[n].key = cur /\ Articles = calls[n].value

----------------------------------------------------------------------------
(* Claims about the adapters *)

\* a string that is there and not empty
NonEmpty(v) == v # Undefined /\ v # ""

\* C11 (as claimed): every article an adapter returns, and so every article of
\* an aggregation result, has a non-empty id, title, url and publishedAt
C11_RequiredFieldsNonEmpty ==
    \A n \in CallIds : \A i \in 1..Len(calls[n].returned) :
        \A j \in 1..Len(calls[n].returned[i]) :
            LET a == calls[n].returned[i][j]
            IN  /\ NonEmpty(a.id)
                /\ NonEmpty(a.title)
                /\ NonEmpty(a.url)
                /\ NonEmpty(a.publishedAt)

\* C12: every article an adapter returns has a non-empty imageUrl; it is the
\* placeholder URL when the provider item came without an image (no image
\* field, an empty one, an empty multimedia list) and the provider's image URL
\* otherwise.
C12_ImageUrlOrPlaceholder ==
    \A n \in CallIds : \A i \in 1..Len(calls[n].returned) :
        LET list == calls[n].returned[i]
            source == calls[n].key.sources[i]
        IN  /\ \A j \in 1..Len(list) : NonEmpty(list[j].imageUrl)
            /\ calls[n].outcome[i] = "resolved" =>
                  /\ \E r \in upstream : r.ok /\ list = AdapterResult(source, r.feed)
                  /\ \A r \in upstream :
                        (/\ r.ok
                         /\ list = AdapterResult(source, r.feed)
                         /\ Len(list) = Len(r.feed))
                           => \A j \in 1..Len(list) :
                                 list[j].imageUrl =
                                     IF "image" \in r.feed[j].gaps
                                     THEN DEFAULT_IMAGE_URL
                                     ELSE ProviderImage(j)

\* one aggregation over the three providers returned an article with the
\* placeholder from each of two providers, one item having come with an empty
\* image field and one with none, and an article with the provider's image
C12_Witness ==
    \E n \in CallIds :
        /\ calls[n].status = "resolved"
        /\ Len(calls[n].key.sources) = 3
        /\ \A i \in 1..3 : Len(calls[n].returned[i]) = 1
        /\ \E i, j, k \in 1..3 :
              /\ i # j
              /\ calls[n].returned[i][1].imageUrl = DEFAULT_IMAGE_URL
              /\ calls[n].returned[j][1].imageUrl = DEFAULT_IMAGE_URL
              /\ calls[n].returned[k][1].imageUrl = ProviderImage(1)
        /\ \E r1, r2 \in upstream :
              /\ r1.feed[1].gaps = {"image"} /\ r1.feed[1].blank = ""
              /\ r2.feed[1].gaps = {"image"} /\ r2.feed[1].blank = Undefined

----------------------------------------------------------------------------
(* Claims about the orchestrator under changes of the pair *)

\* C14: the articles the orchestrator exposes for the current (sources,
\* filters) pair are always the result of a fetch issued for that pair; the
\* response of a superseded fetch, however late, is never shown as the
\* articles of the new pair.  The same holds of every query of the cache.
C14_ArticlesComeFromOwnFetch ==
    /\ CurQuery.hasData =>
          \E n \in CallIds : /\ calls[n].status = "resolved"
                             /\ KeyOf(calls[n].key) = KeyOf(cur)
                             /\ calls[n].value = Articles
    /\ \A k \in DOMAIN cache : cache[k].hasData =>
          \E n \in CallIds : /\ calls[n].status = "resolved"
                             /\ KeyOf(calls[n].key) = k
                             /\ calls[n].value = cache[k].data

\* a fetch was superseded by a fetch for another pair and resolved after the
\* newer one (its data is younger), with other articles; the articles
\* exposed are those of the newer fetch
C14_Witness ==
    \E n, m \in CallIds :
        /\ n < m
        /\ KeyOf(calls[n].key) # KeyOf(cur)
        /\ KeyOf(calls[m].key) = KeyOf(cur)
        /\ calls[n].status = "resolved"
        /\ calls[m].status = "resolved"
        /\ cache[KeyOf(calls[n].key)].age < cache[KeyOf(cur)].age
        /\ calls[n].value # calls[m].value
        /\ Articles = calls[m].value

\* the requests of call c that go to provider `source`
RequestsTo(c, source) == {i \in 1..Len(c.requests) : c.requests[i].source = source}

\* the places of `source` in the list of sources of call c
PlacesOf(c, source) == {i \in 1..Len(c.key.sources) : c.key.sources[i] = source}

Issued(c) == {i \in 1..Len(c.outcome) : c.outcome[i] # "skipped"}

\* C16: an aggregation call issues the request of every selected source
\* before it awaits any: when the call begins all its requests are out and
\* none has settled, and the requests never change afterwards; it resolves
\* only after every request has settled; and if every request settles in the
\* end, the call resolves in the end.
C16_AllIssuedThenAllAwaited ==
    /\ [](\A n \in CallIds :
             /\ Len(calls[n].requests) = Cardinality(Issued(calls[n]))
             /\ calls[n].status = "resolved" => AllSettled(calls[n]))
    /\ [][/\ Len(calls') > Len(calls) =>
               \A i \in Issued(calls'[Len(calls')]) :
                   calls'[Len(calls')].outcome[i] = "pending"
          /\ \A n \in CallIds : calls'[n].requests = calls[n].requests]_vars
    /\ mounted ~> (\A n \in CallIds : calls[n].status = "resolved")

\* of the three requests of a call one has been answered, one has failed and
\* one is in flight still, and the call has not returned
C16_Witness ==
    \E n \in CallIds :
        /\ Len(calls[n].requests) = 3
        /\ \E i, j, k \in 1..3 : /\ calls[n].outcome[i] = "resolved"
                                  /\ calls[n].returned[i] # <<>>
                                  /\ calls[n].outcome[j] = "rejected"
                                  /\ calls[n].outcome[k] = "pending"
        /\ calls[n].status = "running"
        /\ IsLoading

\* the parameter names of the date range and its encoding, by provider
DateParams(source) ==
    CASE source = "nytimes" -> [fromDate |-> "begin_date", toDate |-> "end_date"]
      [] source = "guardian" -> [fromDate |-> "from-date", toDate |-> "to-date"]
      [] source = "newsapi" -> [fromDate |-> "from", toDate |-> "to"]

DateEncoding(source, date) == IF source = "nytimes" THEN RemoveHyphens(date) ELSE date

\* C17 (as claimed): when an aggregation is invoked with a fromDate or a
\* toDate, every request it sends carries that date under the provider's
\* parameter name and in the provider's encoding: YYYYMMDD in begin_date and
\* end_date for the New York Times, the ISO date in from-date and to-date
\* for the Guardian and in from and to for NewsAPI
C17_DatesReachEveryProvider ==
    \A n \in CallIds : \A i \in 1..Len(calls[n].requests) :
        \A f \in {"fromDate", "toDate"} :
            LET r == calls[n].requests[i]
                filters == calls[n].key.filters
            IN  Present(filters, f) =>
                  /\ DateParams(r.source)[f] \in DOMAIN r.params
                  /\ r.params[DateParams(r.source)[f]] = DateEncoding(r.source, filters[f])

\* C24 (as claimed): the cache key depends on the set of the selected
\* sources, not on their order: a render with a pair whose sources are those
\* of a pair with fresh data in another order, the filters equal, starts no
\* call and returns the list the cache holds for that pair
C24_KeyIgnoresSourceOrder ==
    [][\A k \in RenderKeys :
          (/\ renders' # renders
           /\ cur' # k
           /\ Range(cur'.sources) = Range(k.sources)
           /\ Len(cur'.sources) = Len(k.sources)
           /\ cur'.filters = k.filters
           /\ Fresh(k))
             => /\ calls' = calls
                /\ Articles' = Entry(k).data]_vars

\* C25 (as claimed): a selected source whose adapter resolved with at least
\* one article of the current result is not listed in failedSources
C25_FailedSourcesOnlyWithoutArticles ==
    \A n \in CallIds :
        (/\ calls[n].key = cur
         /\ calls[n].status = "resolved"
         /\ CurQuery.hasData
         /\ Articles = calls[n].value)
           => \A i \in 1..Len(cur.sources) :
                 (calls[n].outcome[i] = "resolved" /\ calls[n].returned[i] # <<>>)
                    => cur.sources[i] \notin Range(FailedSources)

----------------------------------------------------------------------------
(* Claims about the error banner *)

\* the current result has articles, and some but not all of the selected
\* sources are classified as failed
PartialResult ==
    /\ mounted
    /\ CurQuery.hasData
    /\ Len(Articles) > 0
    /\ Len(FailedSources) > 0
    /\ Len(FailedSources) < Len(cur.sources)

\* C18 (as claimed): whenever such a result comes to be the current one, by
\* a fetch that returns or by a change of the pair to one the cache holds,
\* the banner is shown with it, naming exactly the failed sources, its timer
\* of 3 seconds running
C18_BannerWithEveryPartialResult ==
    [][(PartialResult' /\ (~PartialResult \/ cur' # cur \/ Articles' # Articles))
          => /\ errorBanner'.isVisible
             /\ errorBanner'.timer
             /\ errorBanner'.failedSources = FailedSources']_vars

----------------------------------------------------------------------------
(* Claims about the components *)

\* the preferences are applied in this step: Save Preferences, or an edit in
\* the drawer under apply-immediately
PreferencesApplied ==
    \/ SavePreferences
    \/ applyImmediately /\ (ToggleSourceAny \/ ToggleCategoryAny \/ EditAuthorFilterAny)

\* C13: in every reachable state, after any sequence of Apply Filters, Clear
\* Filters, Save Preferences, Reset and apply-immediately edits, the selected
\* sources are a non-empty list of provider tags; and a step that applies
\* preferences naming no provider leaves them at all three providers.
C13_SelectedSourcesNeverEmpty ==
    /\ [](selectedSources # <<>> /\ Range(selectedSources) \subseteq NewsSource)
    /\ [][(PreferencesApplied /\ SourceIds(preferences'.sources) = <<>>)
              => selectedSources' = AllSources]_vars

\* Save Preferences has run in this session, after dates had been applied in
\* the filter drawer, with preferences whose only source is no provider of
\* the drawer, and all three providers are selected
C13_Witness ==
    /\ selectedSources = AllSources
    /\ ~isPersonalizeOpen
    /\ preferences.sources = <<"BBC">>
    /\ HasItem("newsHubPreferences")
    /\ Parse(localStorage["newsHubPreferences"]) = preferences
    /\ HasItem("applyImmediately")
    /\ Parse(localStorage["applyImmediately"]) = FALSE
    /\ dateRange.fromDate # ""

\* C19 (as claimed): after Clear Filters, from any reachable state, the
\* filters NewsFeed passes for the next fetch are the defaults (no keyword,
\* no category, no date range, no author) and the selected sources are all
\* three providers
C19_ClearFiltersGivesDefaults ==
    [][ClearFilters => /\ \A f \in FilterFields : ~Present(cur'.filters, f)
                       /\ cur'.sources = AllSources
                       /\ selectedSources' = AllSources]_vars

\* C20: when the preferences drawer opens over a stored record with a legacy
\* `authors` array, the loaded preferences have authorFilter equal to the
\* first element of the array ("" when it is empty), no `authors` field, and
\* the other fields as stored; a stored record without `authors` is loaded
\* unchanged.
C20_LegacyAuthorsMigrated ==
    [][(OpenPersonalize /\ HasItem("newsHubPreferences")) =>
          LET stored == Parse(localStorage["newsHubPreferences"])
          IN  IF "authors" \in DOMAIN stored
              THEN /\ DOMAIN preferences' = (DOMAIN stored \ {"authors"}) \cup {"authorFilter"}
                   /\ preferences'.authorFilter =
                          (IF stored.authors = <<>> THEN "" ELSE stored.authors[1])
                   /\ \A f \in DOMAIN stored \ {"authors", "authorFilter"} :
                          preferences'[f] = stored[f]
              ELSE preferences' = stored]_vars

\* the drawer is open over a stored record with the authors Jane Doe and
\* John Roe, and its preferences have the author filter Jane Doe, no
\* `authors`, and the stored categories and sources
C20_Witness ==
    /\ isPersonalizeOpen
    /\ HasItem("newsHubPreferences")
    /\ Parse(localStorage["newsHubPreferences"]).authors = <<"Jane Doe", "John Roe">>
    /\ DOMAIN preferences = {"categories", "authorFilter", "sources"}
    /\ preferences.authorFilter = "Jane Doe"
    /\ preferences.categories = <<"Sports">>
    /\ preferences.sources = <<"The Guardian">>

\* C21 (as claimed): the two items of the local store are changed by Save
\* Preferences only; every other action leaves both as they were
C21_StoreChangedBySaveOnly ==
    [][localStorage' # localStorage => SavePreferences]_vars

\* C21 (amended): the two items of the local store are changed by Save
\* Preferences and by Reset only.  Save Preferences writes both from the
\* drawer's state; Reset removes the preferences item and leaves the
\* apply-immediately item as it was; every other action leaves both alone.
C21_StoreChangedBySaveOrReset ==
    [][/\ localStorage' # localStorage => SavePreferences \/ ResetPreferences
       /\ SavePreferences =>
             /\ DOMAIN localStorage' =
                   DOMAIN localStorage \cup {"newsHubPreferences", "applyImmediately"}
             /\ Parse(localStorage'["newsHubPreferences"]) = preferences
             /\ Parse(localStorage'["applyImmediately"]) = applyImmediately
       /\ ResetPreferences =>
             /\ DOMAIN localStorage' = DOMAIN localStorage \ {"newsHubPreferences"}
             /\ \A n \in DOMAIN localStorage' : localStorage'[n] = localStorage[n]]_vars

\* Reset has run over a store that an earlier Save Preferences of this
\* session had written: the preferences item is gone, the flag that was
\* saved is there still
C21_Witness ==
    /\ isPersonalizeOpen
    /\ preferences = EmptyPreferences
    /\ ~HasItem("newsHubPreferences")
    /\ HasItem("applyImmediately")
    /\ Parse(localStorage["applyImmediately"]) = FALSE

\* C22 (as claimed): after Save Preferences with the drawer state (P, F),
\* the next opening of the drawer, no save in between, sets the drawer state
\* to P and F
C22_SaveThenLoad ==
    [][(OpenPersonalize /\ lastSaved.saved) =>
          /\ preferences' = lastSaved.preferences
          /\ applyImmediately' = lastSaved.applyImmediately]_vars

\* C22 (amended): after Save Preferences with the drawer state (P, F), the
\* next opening of the drawer, no save in between and whatever was edited and
\* left unsaved, sets the flag to F, and sets the preferences to P unless
\* Reset has run since the save; after a Reset the opening finds no
\* preferences item and leaves the preferences of the drawer as they are.
C22_SaveThenLoadUnlessReset ==
    [][(OpenPersonalize /\ lastSaved.saved) =>
          /\ applyImmediately' = lastSaved.applyImmediately
          /\ preferences' = IF lastSaved.reset THEN preferences
                            ELSE lastSaved.preferences]_vars

\* the drawer has been opened again after a Save Preferences and an edit
\* that was left unsaved, and shows what was saved: the author Jane Doe and
\* the Guardian, which the edit had taken out
C22_Witness ==
    /\ isPersonalizeOpen
    /\ lastSaved.saved
    /\ ~lastSaved.reset
    /\ steps >= 6
    /\ preferences = lastSaved.preferences
    /\ preferences.authorFilter = "Jane Doe"
    /\ preferences.sources = <<"The Guardian">>
    /\ applyImmediately = lastSaved.applyImmediately

\* C23 (as claimed): after Save Preferences, or an edit under
\* apply-immediately, with a non-empty author filter, the filters NewsFeed
\* passes for the next fetch carry that author; after Reset they carry none
C23_AuthorReachesOrchestrator ==
    [][/\ (PreferencesApplied /\ preferences'.authorFilter # "") =>
             /\ Present(cur'.filters, "author")
             /\ cur'.filters.author = preferences'.authorFilter
       /\ ResetPreferences => ~Present(cur'.filters, "author")]_vars

\* C26 (as claimed): typing in the search box, in any reachable state, leaves
\* the pair NewsFeed passes to the orchestrator as it was, so that no fetch
\* follows from it
C26_TypingChangesNoFilters ==
    [][TypeQueryAny => cur' = cur]_vars

\* the provider tags the drawer's choice of sources stands for
DrawerSources ==
    IF "All Sources" \in Range(localSources) THEN {"newsapi", "guardian", "nytimes"}
    ELSE {TagOf(localSources[i]) : i \in 1..Len(localSources)}

\* C27: Apply Filters changes the global state only when something differs.
\* If the drawer's category, date range and set of sources equal the global
\* ones, then selectedCategory, dateRange, selectedSources and isSearching
\* stay as they are, and so does the pair passed to the orchestrator;
\* otherwise the three values are set from the drawer and a search is
\* triggered.
C27_ApplyOnlyOnChange ==
    [][ApplyFilters =>
          IF /\ localCategory = selectedCategory
             /\ localDateRange.fromDate = dateRange.fromDate
             /\ localDateRange.toDate = dateRange.toDate
             /\ DrawerSources = Range(selectedSources)
          THEN /\ UNCHANGED <<selectedCategory, dateRange, selectedSources, isSearching>>
               /\ cur' = cur
          ELSE /\ selectedCategory' = localCategory
               /\ dateRange'.fromDate = localDateRange.fromDate
               /\ dateRange'.toDate = localDateRange.toDate
               /\ Range(selectedSources') = DrawerSources
               /\ isSearching']_vars

\* Apply Filters has set a category, a date and one source and has triggered
\* the first search of the run: nothing else sets a date
C27_Witness ==
    /\ ~isFilterOpen
    /\ isSearching
    /\ selectedCategory = "Sports"
    /\ dateRange = [fromDate |-> "2024-05-01", toDate |-> ""]
    /\ selectedSources = <<"guardian">>
    /\ steps = 5
    /\ cur.filters = [searchQuery |-> "", category |-> "Sports",
                      fromDate |-> "2024-05-01", toDate |-> ""]

\* a step that calls executeSearch
ExecutesSearch ==
    \/ Search
    \/ ClearFilters
    \/ SavePreferences
    \/ ResetPreferences
    \/ PreferencesApplied
    \/ ApplyFilters /\ (\/ localCategory # selectedCategory
                         \/ localDateRange # dateRange
                         \/ DrawerSources # Range(selectedSources))

\* C28: isSearching is monotonic.  It is false until the first user action,
\* every step that calls executeSearch leaves it true, no step sets it back
\* to false, and the filters passed to the orchestrator are the empty object
\* {} exactly while it is false: after the first executeSearch never again.
C28_IsSearchingMonotonic ==
    /\ [](/\ (steps = 0) => ~isSearching
          /\ isSearching <=> (cur.filters # EmptyFilters))
    /\ [][/\ isSearching => isSearching'
          /\ ExecutesSearch => isSearching']_vars

\* a search was executed with a keyword, and the box, the category and the
\* dates are empty again: the filters passed are the blank search, not {}
C28_Witness ==
    /\ isSearching
    /\ searchQuery = ""
    /\ selectedCategory = ""
    /\ dateRange = [fromDate |-> "", toDate |-> ""]
    /\ steps >= 3
    /\ preferences = EmptyPreferences
    /\ cur.filters = BlankSearch
    /\ cur.filters # EmptyFilters

\* the drawer opens in this step
DrawerOpens == ~isPersonalizeOpen /\ isPersonalizeOpen'

\* C29: at application start the selected sources are all three providers and
\* the filters passed are empty, whatever the local store holds.  The store
\* is read only in the step that opens the preferences drawer, which sets the
\* drawer's preferences and its apply-immediately setting from the items
\* that are there and leaves the selected sources and the category alone;
\* no other step changes the apply-immediately setting, and the preferences
\* change otherwise only by an edit in the drawer or by Reset.  The selected
\* sources and the category take a value from the preferences only in Save
\* Preferences or an apply-immediately edit: every other step that changes
\* them is Reset or Clear Filters, which set the defaults, or Apply Filters,
\* which sets the drawer's selections.
C29_StoreReadOnlyOnOpen ==
    /\ []((steps = 0) =>
             /\ selectedSources = <<"newsapi", "guardian", "nytimes">>
             /\ selectedCategory = ""
             /\ preferences = EmptyPreferences
             /\ cur = Key(AllSources, EmptyFilters))
    /\ [][/\ DrawerOpens =>
                /\ selectedSources' = selectedSources
                /\ selectedCategory' = selectedCategory
                /\ cur' = cur
                /\ preferences' = IF HasItem("newsHubPreferences")
                                  THEN Migrate(Parse(localStorage["newsHubPreferences"]))
                                  ELSE preferences
                /\ applyImmediately' = IF HasItem("applyImmediately")
                                       THEN Parse(localStorage["applyImmediately"])
                                       ELSE applyImmediately
          /\ (applyImmediately' # applyImmediately) => DrawerOpens
          /\ (preferences' # preferences) =>
                \/ DrawerOpens
                \/ ToggleSourceAny \/ ToggleCategoryAny \/ EditAuthorFilterAny
                \/ ResetPreferences
          /\ (selectedSources' # selectedSources \/ selectedCategory' # selectedCategory) =>
                \/ PreferencesApplied
                \/ /\ ResetPreferences \/ ClearFilters
                   /\ selectedSources' = AllSources
                   /\ selectedCategory' = ""
                \/ /\ ApplyFilters
                   /\ selectedCategory' = localCategory
                   /\ Range(selectedSources') = DrawerSources]_vars

\* the store held preferences and the apply-immediately setting of an earlier
\* session, the drawer has been opened and has loaded both, and the selected
\* sources and the filters passed are still those of the start
C29_Witness ==
    /\ steps = 1
    /\ isPersonalizeOpen
    /\ HasItem("newsHubPreferences")
    /\ preferences = Migrate(Parse(localStorage["newsHubPreferences"]))
    /\ SourceIds(preferences.sources) = <<"guardian">>
    /\ preferences.categories = <<"Sports">>
    /\ applyImmediately
    /\ selectedSources = AllSources
    /\ selectedCategory = ""
    /\ cur = Key(AllSources, EmptyFilters)

----------------------------------------------------------------------------
(* Claims about the New York Times adapter *)

\* the author the claim describes for a byline: the byline without a leading
\* "By ", and none when there is no byline or nothing remains
BylineAuthor(byline) ==
    LET remainder == IF byline = Undefined THEN ""
                     ELSE IF Len(byline) >= 3 /\ SubSeq(byline, 1, 3) = "By "
                          THEN SubSeq(byline, 4, Len(byline))
                          ELSE byline
    IN  IF remainder = "" THEN Undefined ELSE remainder

\* C30: the New York Times adapter returns exactly the provider items that
\* have both a non-empty title and a non-empty abstract, in the provider's
\* order: an item lacking both is dropped, and so is an item lacking one of
\* the two.  The author of each article is the item's byline with a leading
\* "By " removed, and is absent when the byline is missing or nothing remains.
C30_NYTKeepsTitledAbstracted ==
    \A n \in CallIds : \A i \in 1..Len(calls[n].returned) :
        (calls[n].key.sources[i] = "nytimes" /\ calls[n].outcome[i] = "resolved") =>
            LET feed == (CHOOSE r \in upstream : r.ok).feed
                raw == [k \in 1..Len(feed) |-> RawNYT(k, feed[k])]
                both == {k \in 1..Len(feed) :
                            NonEmpty(raw[k].title) /\ NonEmpty(raw[k].abstract)}
                list == calls[n].returned[i]
            IN  \E pos \in [1..Len(list) -> 1..Len(feed)] :
                    /\ \A x, y \in 1..Len(list) : x < y => pos[x] < pos[y]
                    /\ {pos[x] : x \in 1..Len(list)} = both
                    /\ \A x \in 1..Len(list) :
                          /\ list[x].id = raw[pos[x]].uri
                          /\ list[x].title = raw[pos[x]].title
                          /\ list[x].description = raw[pos[x]].abstract
                          /\ list[x].author = BylineAuthor(raw[pos[x]].byline)

\* the provider answered with an item without a title and then an item with
\* title, abstract and the byline "By ": the adapter returned the second item
\* alone, without an author
C30_Witness ==
    \E n \in CallIds : \E i \in 1..Len(calls[n].returned) :
        /\ calls[n].key.sources[i] = "nytimes"
        /\ calls[n].outcome[i] = "resolved"
        /\ \E r \in upstream :
              /\ Len(r.feed) = 2
              /\ r.feed[1].gaps = {"title"}
              /\ r.feed[2].gaps = {}
              /\ r.feed[2].byline = "By "
        /\ Len(calls[n].returned[i]) = 1
        /\ calls[n].returned[i][1].id = ItemId(2)
        /\ calls[n].returned[i][1].author = Undefined

====
